---- MODULE Spec2Model ----
(***************************************************************************)
(* get_telegram.py: reading one DSMR telegram from a P1 port (or a file),  *)
(* checking its CRC16 and extracting the readings.                         *)
(*                                                                         *)
(* Text is modelled as sequences of character codes 0..255: the bytes on   *)
(* the wire and, after decode('ascii'), the characters of a str.           *)
(***************************************************************************)
EXTENDS Integers, Sequences, FiniteSets, TLC

(***************************************************************************)
(* Text literals                                                           *)
(***************************************************************************)
\* The printable ASCII characters 32..95 and 97..126 (a TLA+ string cannot hold
\* the grave accent, code 96, which no telegram text of the model uses).
PrintableLow ==
  " !\"#$%&'()*+,-./0123456789:;<=>?@ABCDEFGHIJKLMNOPQRSTUVWXYZ[\\]^_"

PrintableHigh == "abcdefghijklmnopqrstuvwxyz{|}~"

\* The ASCII code of the one-character string c.
Ord(c) ==
  IF c = "\r" THEN 13
  ELSE IF c = "\n" THEN 10
  ELSE IF \E i \in 1..Len(PrintableLow) : SubSeq(PrintableLow, i, i) = c
  THEN 31 + (CHOOSE i \in 1..Len(PrintableLow) : SubSeq(PrintableLow, i, i) = c)
  ELSE 96 + (CHOOSE i \in 1..Len(PrintableHigh) : SubSeq(PrintableHigh, i, i) = c)

\* The character codes of the string literal s.
B(s) == [i \in 1..Len(s) |-> Ord(SubSeq(s, i, i))]

CR == Ord("\r")
LF == Ord("\n")
CRLF == B("\r\n")

\* The literal parts of the patterns and of the tests on a line.
TimestampHead == B("0-0:1.0.0(")
ElectricityHead == B("1-0:1.")
Code81 == B("8.1")
Code82 == B("8.2")
Code70 == B("7.0")
Open == B("(")
Close == B(")")
UnitKW == B("*kW")
Gas4Head == B("0-1:24.2.1(")
CloseOpen == B(")(")
UnitM3 == B("*m3)")
Gas2Head == B("0-1:24.3.0(")
Slash == B("/")
Bang == B("!")
CharS == Ord("S")
CharW == Ord("W")
CharClose == Ord(")")
CharBang == Ord("!")
CharDot == Ord(".")
CharUnderscore == Ord("_")

\* str.startswith(prefix), and its use at an offset: s[i:].startswith(p), 1-based.
StartsWithAt(s, i, p) ==
  /\ i + Len(p) - 1 <= Len(s)
  /\ \A k \in 1..Len(p) : s[i + k - 1] = p[k]

StartsWith(s, p) == StartsWithAt(s, 1, p)

IsDigit(c) == c >= 48 /\ c <= 57

\* The regex class [0-9.]
IsDigitOrDot(c) == IsDigit(c) \/ c = 46

Max(S) == CHOOSE x \in S : \A y \in S : y <= x
Min(S) == CHOOSE x \in S : \A y \in S : x <= y

\* The least index k >= i with s[k] = c, or 0 when there is none.
RECURSIVE IndexFrom(_, _, _)
IndexFrom(s, i, c) ==
  IF i > Len(s) THEN 0
  ELSE IF s[i] = c THEN i
  ELSE IndexFrom(s, i + 1, c)

\* The end (inclusive) of the longest run of [0-9.] characters that starts at
\* i; i - 1 when s[i] is not in the class. The regex [0-9.]+ is greedy and is
\* always followed by a literal outside the class, so it matches this run only.
RECURSIVE RunEnd(_, _)
RunEnd(s, i) ==
  IF i <= Len(s) /\ IsDigitOrDot(s[i]) THEN RunEnd(s, i + 1) ELSE i - 1

(***************************************************************************)
(* CRC16 = crcmod.predefined.mkPredefinedCrcFun('crc16'): CRC-16/ARC,      *)
(* polynomial 0x8005 reflected (0xA001), initial value 0, no final xor.    *)
(***************************************************************************)
RECURSIVE Xor(_, _)
Xor(a, b) ==
  IF a = 0 THEN b
  ELSE IF b = 0 THEN a
  ELSE ((a + b) % 2) + 2 * Xor(a \div 2, b \div 2)

\* n steps of the bitwise CRC register: shift right, and xor the reflected
\* polynomial in when the bit shifted out is set.
RECURSIVE CrcShift(_, _)
CrcShift(crc, n) ==
  IF n = 0 THEN crc
  ELSE LET c == CrcShift(crc, n - 1)
       IN  IF c % 2 = 1 THEN Xor(c \div 2, 40961) ELSE c \div 2

\* crcmod's table: the register after one byte, started from 0.
CrcTable == [byte \in 0..255 |-> CrcShift(byte, 8)]

\* The CRC register after bytes[lo..hi], started from crc. The range is
\* halved rather than walked, and the register is looked at (it is a 16-bit
\* value) before the second half is entered, so that the evaluation of the
\* first half is finished by then and the evaluation stays shallow.
RECURSIVE CrcRange(_, _, _, _)
CrcRange(crc, bytes, lo, hi) ==
  IF crc \notin 0..65535 \/ lo > hi THEN crc
  ELSE IF lo = hi
  THEN Xor(CrcTable[Xor(crc % 256, bytes[lo])], crc \div 256)
  ELSE LET mid == (lo + hi) \div 2
       IN  CrcRange(CrcRange(crc, bytes, lo, mid), bytes, mid + 1, hi)

CRC16(bytes) == CrcRange(0, bytes, 1, Len(bytes))

(***************************************************************************)
(* The line patterns. Each gives a record with ok = FALSE when the pattern *)
(* does not match, and the named groups when it does. re.match anchors a   *)
(* pattern at the start of the line and not at its end.                    *)
(***************************************************************************)
NoMatch == [ok |-> FALSE]

AllDigits(s, from, to) ==
  /\ to <= Len(s)
  /\ \A k \in from..to : IsDigit(s[k])

IsTimezone(c) == c = CharS \/ c = CharW

\* (?P<Code>0-0:1\.0\.0)\((?P<Value>[0-9]{12})(?P<Timezone>[SW])\)
TIMESTAMP_PATTERN(line) ==
  IF /\ StartsWith(line, TimestampHead)
     /\ AllDigits(line, 11, 22)
     /\ Len(line) >= 24
     /\ IsTimezone(line[23])
     /\ line[24] = CharClose
  THEN [ok |-> TRUE, Code |-> SubSeq(line, 1, 9),
        Value |-> SubSeq(line, 11, 22), Timezone |-> line[23]]
  ELSE NoMatch

\* (?P<Code>1-0:1\.(8\.1|8\.2|7\.0))\((?P<Value>[0-9.]+)\*kW
ELECTRICITY_PATTERN(line) ==
  LET end == RunEnd(line, 11)
  IN  IF /\ StartsWith(line, ElectricityHead)
         /\ \/ StartsWithAt(line, 7, Code81)
            \/ StartsWithAt(line, 7, Code82)
            \/ StartsWithAt(line, 7, Code70)
         /\ StartsWithAt(line, 10, Open)
         /\ end >= 11
         /\ StartsWithAt(line, end + 1, UnitKW)
      THEN [ok |-> TRUE, Code |-> SubSeq(line, 1, 9),
            Value |-> SubSeq(line, 11, end)]
      ELSE NoMatch

\* (?P<Code>0-1:24\.2\.1)\((?P<Timestamp>[0-9]{12})(?P<Timezone>[SW])\)
\* \((?P<Value>[0-9\.]+)\*m3\)
GAS_PATTERN4(line) ==
  LET end == RunEnd(line, 27)
  IN  IF /\ StartsWith(line, Gas4Head)
         /\ AllDigits(line, 12, 23)
         /\ Len(line) >= 26
         /\ IsTimezone(line[24])
         /\ StartsWithAt(line, 25, CloseOpen)
         /\ end >= 27
         /\ StartsWithAt(line, end + 1, UnitM3)
      THEN [ok |-> TRUE, Code |-> SubSeq(line, 1, 10),
            Timestamp |-> SubSeq(line, 12, 23), Timezone |-> line[24],
            Value |-> SubSeq(line, 27, end)]
      ELSE NoMatch

\* (?P<Code>0-1:24\.3\.0)\((?P<Timestamp>[0-9]{12}).*\r\n\((?P<Value>[0-9.]+)\)
\* matched with its first character at position p of the text. The dot does
\* not match a line feed, so the CR/LF of the pattern is at the first line
\* feed after the twelve digits.
GasPattern2At(text, p) ==
  LET lf  == IndexFrom(text, p + 23, LF)
      end == RunEnd(text, lf + 2)
  IN  IF /\ StartsWithAt(text, p, Gas2Head)
         /\ AllDigits(text, p + 11, p + 22)
         /\ lf > p + 23
         /\ text[lf - 1] = CR
         /\ StartsWithAt(text, lf + 1, Open)
         /\ end >= lf + 2
         /\ StartsWithAt(text, end + 1, Close)
      THEN [ok |-> TRUE, Code |-> SubSeq(text, p, p + 9),
            Timestamp |-> SubSeq(text, p + 11, p + 22),
            Value |-> SubSeq(text, lf + 2, end)]
      ELSE NoMatch

\* re.search(GAS_PATTERN2, telegram): the match at the least position.
GAS_PATTERN2(text) ==
  LET starts == {p \in 1..Len(text) : GasPattern2At(text, p).ok}
  IN  IF starts = {} THEN NoMatch
      ELSE GasPattern2At(text, CHOOSE p \in starts : \A q \in starts : p <= q)

\* The positions m.end() (0-based, as in the source) of the matches of
\* CHECKSUM_PATTERN = '\r\n(?=!)': a CR/LF that an exclamation mark follows.
CHECKSUM_PATTERN(text) ==
  {e \in 2..Len(text) - 1 :
     text[e - 1] = CR /\ text[e] = LF /\ text[e + 1] = CharBang}

(***************************************************************************)
(* Conversions: float(), int(.., 16), datetime.strptime and the seconds    *)
(* since 1970-01-01. A failed conversion is Python's ValueError.           *)
(***************************************************************************)
Digit(c) == c - 48

\* A float is modelled by the decimal it was read from, normalised: the pair
\* <<n, scale>> stands for n / 10^scale and n has no trailing zero when
\* scale > 0. (The values of the model have far fewer than the 15 significant
\* digits a double holds exactly enough to tell two decimals apart.)
RECURSIVE Normalise(_, _)
Normalise(n, scale) ==
  IF scale > 0 /\ n % 10 = 0 THEN Normalise(n \div 10, scale - 1)
  ELSE <<n, scale>>

Zero == <<0, 0>>

\* The number the digits of s[1..n] spell, the dot skipped.
RECURSIVE DigitsValue(_, _)
DigitsValue(s, n) ==
  IF n = 0 THEN 0
  ELSE IF s[n] = CharDot THEN DigitsValue(s, n - 1)
  ELSE 10 * DigitsValue(s, n - 1) + Digit(s[n])

\* float(value) for a value the patterns let through, a run of [0-9.]: a
\* number when it holds at most one dot and at least one digit.
Float(value) ==
  LET dots == {k \in 1..Len(value) : value[k] = CharDot}
  IN  IF Cardinality(dots) <= 1 /\ Len(value) > Cardinality(dots)
      THEN [ok |-> TRUE,
            val |-> Normalise(DigitsValue(value, Len(value)),
                              IF dots = {} THEN 0
                              ELSE Len(value) - (CHOOSE k \in dots : TRUE))]
      ELSE [ok |-> FALSE]

\* The characters int() strips from both ends of an ASCII str.
IsSpace(c) == c \in {9, 10, 11, 12, 13, 32}

IsHex(c) == IsDigit(c) \/ (c >= 65 /\ c <= 70) \/ (c >= 97 /\ c <= 102)

HexDigit(c) == IF IsDigit(c) THEN c - 48 ELSE IF c >= 97 THEN c - 87 ELSE c - 55

RECURSIVE StripRight(_)
StripRight(s) ==
  IF s # <<>> /\ IsSpace(s[Len(s)]) THEN StripRight(SubSeq(s, 1, Len(s) - 1))
  ELSE s

\* The number the hexadecimal digits of s[1..n] spell, underscores skipped.
RECURSIVE HexValue(_, _)
HexValue(s, n) ==
  IF n = 0 THEN 0
  ELSE IF s[n] = CharUnderscore THEN HexValue(s, n - 1)
  ELSE 16 * HexValue(s, n - 1) + HexDigit(s[n])

\* int('0x' + tail, 16): white space at the end is dropped; what is left must
\* be hexadecimal digits, at least one, where single underscores may stand
\* before a digit.
IntHex(tail) ==
  LET t == StripRight(tail)
  IN  IF /\ t # <<>>
         /\ \A k \in 1..Len(t) : IsHex(t[k]) \/ t[k] = CharUnderscore
         /\ IsHex(t[Len(t)])
         /\ \A k \in 1..Len(t) - 1 : t[k] = CharUnderscore => t[k + 1] # CharUnderscore
      THEN [ok |-> TRUE, val |-> HexValue(t, Len(t))]
      ELSE [ok |-> FALSE]

Num2(s, i) == 10 * Digit(s[i]) + Digit(s[i + 1])

IsLeap(y) == y % 4 = 0 /\ (y % 100 # 0 \/ y % 400 = 0)

DaysInMonth(y, m) ==
  IF m = 2 THEN (IF IsLeap(y) THEN 29 ELSE 28)
  ELSE IF m \in {4, 6, 9, 11} THEN 30 ELSE 31

RECURSIVE DaysBeforeMonth(_, _)
DaysBeforeMonth(y, m) ==
  IF m = 1 THEN 0 ELSE DaysBeforeMonth(y, m - 1) + DaysInMonth(y, m - 1)

\* The days from 0001-01-01 to the first day of year y.
DaysBeforeYear(y) ==
  (y - 1) * 365 + (y - 1) \div 4 - (y - 1) \div 100 + (y - 1) \div 400

\* datetime.strptime(value, '%y%m%d%H%M%S') for twelve digits: every field
\* takes two of them; %y is 2000.. up to 68 and 19xx from 69 on.
Strptime(value) ==
  LET yy == Num2(value, 1)
      y  == IF yy <= 68 THEN 2000 + yy ELSE 1900 + yy
      mo == Num2(value, 3)
      d  == Num2(value, 5)
      h  == Num2(value, 7)
      mi == Num2(value, 9)
      sec == Num2(value, 11)
  IN  IF /\ mo >= 1 /\ mo <= 12
         /\ d >= 1 /\ d <= DaysInMonth(y, mo)
         /\ h <= 23 /\ mi <= 59 /\ sec <= 59
      THEN [ok |-> TRUE, year |-> y, month |-> mo, day |-> d,
            hour |-> h, minute |-> mi, second |-> sec]
      ELSE [ok |-> FALSE]

\* A number of seconds is held as a timedelta holds it, as days and the
\* seconds of the day (0..86399): it stands for days * 86400 + seconds, which
\* for the years after 2037 is more than the model checker's integers hold.
\* dt - datetime(1970, 1, 1), for the datetime strptime returned:
SinceEpoch(dt) ==
  [days |-> DaysBeforeYear(dt.year) + DaysBeforeMonth(dt.year, dt.month)
              + dt.day - 1 - DaysBeforeYear(1970),
   seconds |-> dt.hour * 3600 + dt.minute * 60 + dt.second]

\* t - timedelta(seconds = n)
MinusSeconds(t, n) ==
  [days |-> t.days + (t.seconds - n) \div 86400,
   seconds |-> (t.seconds - n) % 86400]

\* TimezoneOffset with the two flags exchanged: one hour for summer time.
TimezoneOffsetSummerOne(tz) == IF tz = CharS THEN 3600 ELSE 7200

\* timedelta(hours = 1 if m.group('Timezone') == 'W' else 2), in seconds.
TimezoneOffset(tz) == IF tz = CharW THEN 3600 ELSE 7200

(***************************************************************************)
(* class Telegram                                                          *)
(***************************************************************************)
\* The clock readings Telegram.__init__ may take: utcnow() as seconds since
\* the epoch and now() as yymmddHHMMSS.
Clock == {[utc |-> [days |-> 20762, seconds |-> 46800], local |-> B("261105140000")]}

Telegram(now) ==
  [timestamp |-> now.utc, localtime |-> now.local,
   actual |-> Zero, tariff1 |-> Zero, tariff2 |-> Zero, gas |-> Zero]

ACTUAL == B("1-0:1.7.0")
TARIFF1 == B("1-0:1.8.1")
TARIFF2 == B("1-0:1.8.2")

(***************************************************************************)
(* get_telegram: the parts that are functions of the text                  *)
(***************************************************************************)
\* ser.readline(): the bytes up to and including the first line feed, all
\* that is left when there is none, nothing at the end of the input.
ReadLine(bytes) ==
  LET lf == IndexFrom(bytes, 1, LF)
  IN  IF lf = 0 THEN bytes ELSE SubSeq(bytes, 1, lf)

\* bytes.decode('ascii') raises UnicodeDecodeError on a byte above 127.
IsAscii(bytes) == \A k \in 1..Len(bytes) : bytes[k] < 128

\* The least k >= i where sep starts in s, or 0.
RECURSIVE Find(_, _, _)
Find(s, i, sep) ==
  IF i + Len(sep) - 1 > Len(s) THEN 0
  ELSE IF StartsWithAt(s, i, sep) THEN i
  ELSE Find(s, i + 1, sep)

\* s[i:].split(sep), 1-based.
RECURSIVE SplitFrom(_, _, _)
SplitFrom(s, i, sep) ==
  LET k == Find(s, i, sep)
  IN  IF k = 0 THEN <<SubSeq(s, i, Len(s))>>
      ELSE <<SubSeq(s, i, k - 1)>> \o SplitFrom(s, k + Len(sep), sep)

Split(s, sep) == SplitFrom(s, 1, sep)

\* Lines 165-170 for one match of CHECKSUM_PATTERN ending at e (0-based
\* m.end(), the index of the exclamation mark): telegram[m.end() + 1:] is
\* what follows the mark, telegram[:m.end() + 1] ends with the mark.
GivenChecksum(telegram, e) == IntHex(SubSeq(telegram, e + 2, Len(telegram)))

CalculatedChecksum(telegram, e) == CRC16(SubSeq(telegram, 1, e + 1))

\* ExtractLine with a line that matches no pattern taken for an error.
ExtractLineStrict(result, telegram_line, version) ==
  LET ts == TIMESTAMP_PATTERN(telegram_line)
      el == ELECTRICITY_PATTERN(telegram_line)
      g4 == GAS_PATTERN4(telegram_line)
      Set(field, value) ==
        IF Float(value).ok
        THEN [exc |-> "none", result |-> [result EXCEPT ![field] = Float(value).val]]
        ELSE [exc |-> "ValueError", result |-> result]
  IN  IF ts.ok
      THEN LET dt == Strptime(ts.Value)
           IN  IF dt.ok
               THEN [exc |-> "none",
                     result |-> [result EXCEPT
                        !.localtime = ts.Value,
                        !.timestamp = MinusSeconds(SinceEpoch(dt),
                                                   TimezoneOffset(ts.Timezone))]]
               ELSE [exc |-> "ValueError", result |-> result]
      ELSE IF el.ok
      THEN IF el.Code = ACTUAL THEN Set("actual", el.Value)
           ELSE IF el.Code = TARIFF1 THEN Set("tariff1", el.Value)
           ELSE IF el.Code = TARIFF2 THEN Set("tariff2", el.Value)
           ELSE [exc |-> "none", result |-> result]
      ELSE IF version = 4 /\ g4.ok THEN Set("gas", g4.Value)
      ELSE [exc |-> "ValueError", result |-> result]

\* ExtractLine with the timestamp line starting a new record: the readings
\* extracted before it are dropped.
ExtractLineFresh(result, telegram_line, version) ==
  LET ts == TIMESTAMP_PATTERN(telegram_line)
      el == ELECTRICITY_PATTERN(telegram_line)
      g4 == GAS_PATTERN4(telegram_line)
      Set(field, value) ==
        IF Float(value).ok
        THEN [exc |-> "none", result |-> [result EXCEPT ![field] = Float(value).val]]
        ELSE [exc |-> "ValueError", result |-> result]
  IN  IF ts.ok
      THEN LET dt == Strptime(ts.Value)
           IN  IF dt.ok
               THEN [exc |-> "none",
                     result |-> [result EXCEPT
                        !.localtime = ts.Value,
                        !.timestamp = MinusSeconds(SinceEpoch(dt),
                                                   TimezoneOffset(ts.Timezone)),
                        !.actual = Zero, !.tariff1 = Zero,
                        !.tariff2 = Zero, !.gas = Zero]]
               ELSE [exc |-> "ValueError", result |-> result]
      ELSE IF el.ok
      THEN IF el.Code = ACTUAL THEN Set("actual", el.Value)
           ELSE IF el.Code = TARIFF1 THEN Set("tariff1", el.Value)
           ELSE IF el.Code = TARIFF2 THEN Set("tariff2", el.Value)
           ELSE [exc |-> "none", result |-> result]
      ELSE IF version = 4 /\ g4.ok THEN Set("gas", g4.Value)
      ELSE [exc |-> "none", result |-> result]

\* The body of the loop over telegram.split('\r\n'), lines 174-192, for one
\* line: the record after it, and the exception it raised if any.
ExtractLine(result, telegram_line, version) ==
  LET ts == TIMESTAMP_PATTERN(telegram_line)
      el == ELECTRICITY_PATTERN(telegram_line)
      g4 == GAS_PATTERN4(telegram_line)
      Set(field, value) ==
        IF Float(value).ok
        THEN [exc |-> "none", result |-> [result EXCEPT ![field] = Float(value).val]]
        ELSE [exc |-> "ValueError", result |-> result]
  IN  IF ts.ok
      THEN LET dt == Strptime(ts.Value)
           IN  IF dt.ok
               THEN [exc |-> "none",
                     result |-> [result EXCEPT
                        !.localtime = ts.Value,
                        !.timestamp = MinusSeconds(SinceEpoch(dt),
                                                   TimezoneOffset(ts.Timezone))]]
               ELSE [exc |-> "ValueError", result |-> result]
      ELSE IF el.ok
      THEN IF el.Code = ACTUAL THEN Set("actual", el.Value)
           ELSE IF el.Code = TARIFF1 THEN Set("tariff1", el.Value)
           ELSE IF el.Code = TARIFF2 THEN Set("tariff2", el.Value)
           ELSE [exc |-> "none", result |-> result]
      ELSE IF version = 4 /\ g4.ok THEN Set("gas", g4.Value)
      ELSE [exc |-> "none", result |-> result]

\* Lines 193-196: the search for the two-line gas reading of version 2.
SearchGas2(result, telegram) ==
  LET m == GAS_PATTERN2(telegram)
  IN  IF ~m.ok THEN [exc |-> "none", result |-> result]
      ELSE IF Float(m.Value).ok
      THEN [exc |-> "none", result |-> [result EXCEPT !.gas = Float(m.Value).val]]
      ELSE [exc |-> "ValueError", result |-> result]

(***************************************************************************)
(* The inputs: what the serial port or the telegram file may deliver.      *)
(***************************************************************************)
\* The most lines a source delivers before the line that starts a telegram.
MaxLead == 2
\* The most lines a source delivers after the line that ends a telegram.
MaxTrail == 1

RECURSIVE Concat(_)
Concat(seqs) == IF seqs = <<>> THEN <<>> ELSE Head(seqs) \o Concat(Tail(seqs))

SeqsUpTo(pool, n) == UNION {[1..k -> pool] : k \in 0..n}

\* The orderings of a sequence.
Orderings(seq) ==
  LET n == Len(seq)
  IN  {[i \in 1..n |-> seq[f[i]]] :
         f \in {g \in [1..n -> 1..n] : \A i, j \in 1..n : g[i] = g[j] => i = j}}

HexChar(d) == IF d < 10 THEN 48 + d ELSE 55 + d

\* The checksum as the meter writes it: four upper-case hexadecimal digits.
Hex4(n) ==
  <<HexChar(n \div 4096), HexChar((n \div 256) % 16),
    HexChar((n \div 16) % 16), HexChar(n % 16)>>

Lower(s) == [k \in 1..Len(s) |-> IF s[k] >= 65 /\ s[k] <= 70 THEN s[k] + 32 ELSE s[k]]

Ident == B("/ISK5\r\n")
TsS == B("0-0:1.0.0(240615120000S)\r\n")
TsW == B("0-0:1.0.0(240615120000W)\r\n")
TsEve == B("0-0:1.0.0(691231235959W)\r\n")
TsBad == B("0-0:1.0.0(230229120000S)\r\n")
T1 == B("1-0:1.8.1(001234.567*kWh)\r\n")
T2 == B("1-0:1.8.2(002.50*kWh)\r\n")
Act == B("1-0:1.7.0(00.345*kW)\r\n")
Act2 == B("1-0:1.7.0(01.5*kW)\r\n")
ActBad == B("1-0:1.7.0(1.2.3*kW)\r\n")
Gas4 == B("0-1:24.2.1(240615110000S)(00003.25*m3)\r\n")
Gas2a == B("0-1:24.3.0(240615110000)(00)(60)(1)(0-1:24.2.1)(m3)\r\n")
Gas2b == B("(00004.75)\r\n")
Gas2Bad == B("(4..75)\r\n")
Other == B("0-0:96.1.1(4B41)\r\n")
ActLf == B("1-0:1.7.0(00.345*kW)\n")

\* The payload of a telegram: the identification line, the body lines and
\* the exclamation mark that starts the last line.
Payload(body) == Ident \o Concat(body) \o Bang

\* What may follow the exclamation mark, given the payload's CRC16.
Tails(crc) ==
  { Hex4(crc) \o CRLF,                    \* the checksum
    Hex4(crc),                            \* the checksum, the input ends there
    Lower(Hex4(crc)) \o CRLF,             \* in lower case
    B("0") \o Hex4(crc) \o CRLF,          \* five digits, the same number
    Hex4(crc) \o B("0") \o CRLF,          \* five digits, another number
    Hex4((crc + 1) % 65536) \o CRLF,      \* another checksum
    CRLF,                                 \* nothing (a version 2 telegram)
    B("G1\r\n") }                         \* not hexadecimal

\* A telegram as the meter sends it.
Framed(body) == Payload(body) \o Hex4(CRC16(Payload(body))) \o CRLF

BaseBodies ==
  { <<TsS, T1, T2, Act, Gas4>>,
    <<TsW, T1, T2, Act, Gas2a, Gas2b>>,
    <<Gas4, TsEve, Gas2a, Gas2b>>,
    <<Other, TsW, Other>>,
    <<Act, TsBad, T1>>,
    <<T2, ActBad>>,
    <<Gas2a, Gas2Bad>>,
    <<T1, ActLf>>,
    <<>> }

\* Every base body with every tail.
TailWires ==
  UNION {{Payload(body) \o tail : tail \in Tails(CRC16(Payload(body)))} :
           body \in BaseBodies}

\* Telegrams among other lines: the end of an earlier telegram before, the
\* start of the next one after, a further identification line inside.
LeadPool == {B("1-0:1.7.0(09.9*kW)\r\n"), B("!FFFF\r\n")}

FrameBodies == {<<>>, <<Act>>, <<T1, Ident, Act>>}

Trails == {[k \in 1..n |-> Ident] : n \in 0..MaxTrail}

FramedWires ==
  {Concat(lead) \o Framed(body) \o Concat(trail) :
     lead \in SeqsUpTo(LeadPool, MaxLead), body \in FrameBodies, trail \in Trails}

\* Inputs that end before a telegram does, or hold none.
OpenWires ==
  {Concat(lead) \o start \o Concat(body) :
     lead \in SeqsUpTo(LeadPool, MaxLead), start \in {<<>>, Ident},
     body \in FrameBodies}

\* The orderings of bodies that hold the timestamp and the three
\* electricity readings.
PermBodies ==
  UNION {Orderings(body) :
           body \in {<<TsS, T1, T2, Act>>, <<TsS, T1, T2, Act, Gas4>>,
                     <<TsS, T1, T2, Act, Act2>>, <<TsS, T1, T2, ActLf>>}}
  \cup {<<TsW, T1, T2, Act, Gas2a, Gas2b>>, <<Gas2a, TsW, T1, Gas2b, T2, Act>>,
        <<Gas2b, Gas2a, Act, T2, T1, TsW>>}

PermWires == {Framed(body) : body \in PermBodies}

\* A telegram with one bit of one payload byte inverted on the wire.
Flip(bytes, i, bit) == [bytes EXCEPT ![i] = Xor(bytes[i], 2 ^ bit)]

CorruptBases == {<<Act>>, <<TsS, Act>>}

CorruptWires ==
  UNION {{Flip(Framed(body), i, bit) :
            i \in 1..Len(Payload(body)), bit \in 0..7} : body \in CorruptBases}

\* What the telegram file may hold.
Wires == TailWires \cup FramedWires \cup OpenWires \cup PermWires \cup CorruptWires

\* What the serial port delivers: telegram after telegram, from wherever the
\* port was opened.
SerialWires == FramedWires \cup OpenWires

(***************************************************************************)
(* The program: main() and, inside it, get_telegram(ser).                  *)
(***************************************************************************)
VARIABLES
  DSRM_VERSION,         \* 2 or 4, fixed for a run
  SIMULATION,           \* TRUE: the input is a file; FALSE: the serial port
  pc,                   \* where main is
  ser,                  \* main's ser: "None", "unopened", "open", "closed"
  writer,               \* main's writer: TRUE once DbWriter(DB_FILE) returned
  con,                  \* the sqlite connection: "none", "open", "closed"
  exc,                  \* the exception raised, "none" when there is none
  status,               \* the exit status, -1 while the process runs
  source,               \* the bytes ser has left to deliver
  reads,                \* the lines readline has returned, empty reads left out
  telegram,
  begin_found,
  checksum_found,
  good_checksum,
  given_checksum,       \* -1 until line 167 sets it
  calculated_checksum,  \* -1 until line 169 sets it
  result,               \* the Telegram of get_telegram
  constructed,          \* the Telegram as Telegram() made it
  lines                 \* what the loop of line 173 has still to visit

vars ==
  <<DSRM_VERSION, SIMULATION, pc, ser, writer, con, exc, status, source, reads,
    telegram, begin_found, checksum_found, good_checksum, given_checksum,
    calculated_checksum, result, constructed, lines>>

config == <<DSRM_VERSION, SIMULATION>>
handles == <<ser, writer, con>>
locals ==
  <<telegram, begin_found, checksum_found, good_checksum, given_checksum,
    calculated_checksum, result, constructed, lines>>

NoTelegram == Telegram([utc |-> [days |-> 0, seconds |-> 0], local |-> <<>>])

Init ==
  /\ DSRM_VERSION \in {2, 4}
  /\ SIMULATION \in BOOLEAN
  /\ pc = "main"
  /\ ser = "None"
  /\ writer = FALSE
  /\ con = "none"
  /\ exc = "none"
  /\ status = -1
  /\ source = <<>>
  /\ reads = <<>>
  /\ telegram = <<>>
  /\ begin_found = FALSE
  /\ checksum_found = FALSE
  /\ good_checksum = TRUE
  /\ given_checksum = -1
  /\ calculated_checksum = -1
  /\ result = NoTelegram
  /\ constructed = NoTelegram
  /\ lines = <<>>

\* An exception leaves the try block for its handler.
Raise(e) == exc' = e /\ pc' = "except"

\* writer = DbWriter(DB_FILE), lines 124-129: connect, and create the table
\* when the database file was not there. Either may raise db.Error; the
\* second leaves a connection that main has no name for.
NewDbWriter ==
  /\ pc = "main"
  /\ \E exists, connects, creates \in BOOLEAN :
       \/ /\ ~connects
          /\ Raise("db.Error")
          /\ UNCHANGED <<writer, con>>
       \/ /\ connects /\ (exists \/ creates)
          /\ con' = "open"
          /\ writer' = TRUE
          /\ pc' = "open"
          /\ UNCHANGED exc
       \/ /\ connects /\ ~exists /\ ~creates
          /\ con' = "open"
          /\ Raise("db.Error")
          /\ UNCHANGED writer
  /\ UNCHANGED <<config, ser, status, source, reads, locals>>

\* Lines 208-222: the serial port is made and then opened, or the telegram
\* file is opened.
OpenStream ==
  /\ pc = "open"
  /\ \/ /\ \E wire \in (IF SIMULATION THEN Wires ELSE SerialWires) : source' = wire
        /\ ser' = "open"
        /\ pc' = "call"
        /\ UNCHANGED exc
     \/ /\ SIMULATION
        /\ Raise("IOError")
        /\ UNCHANGED <<ser, source>>
     \/ /\ ~SIMULATION
        /\ ser' = "unopened"
        /\ Raise("SerialException")
        /\ UNCHANGED source
  /\ UNCHANGED <<config, writer, con, status, reads, locals>>

\* Lines 141-145.
EnterGetTelegram ==
  /\ pc = "call"
  /\ \E now \in Clock :
       /\ result' = Telegram(now)
       /\ constructed' = Telegram(now)
  /\ telegram' = <<>>
  /\ checksum_found' = FALSE
  /\ begin_found' = FALSE
  /\ good_checksum' = TRUE
  /\ pc' = "begin"
  /\ UNCHANGED <<config, handles, exc, status, source, reads, given_checksum,
                 calculated_checksum, lines>>

\* What one ser.readline().decode('ascii') does to the source.
Consume(line) ==
  /\ source' = SubSeq(source, Len(line) + 1, Len(source))
  /\ reads' = IF line = <<>> THEN reads ELSE Append(reads, line)

\* One turn of the loop of lines 149-153.
ReadBegin ==
  /\ pc = "begin"
  /\ LET telegram_line == ReadLine(source)
     IN  /\ Consume(telegram_line)
         /\ IF ~IsAscii(telegram_line)
            THEN /\ Raise("UnicodeDecodeError")
                 /\ UNCHANGED <<telegram, begin_found>>
            ELSE IF StartsWith(telegram_line, Slash)
            THEN /\ telegram' = telegram_line
                 /\ begin_found' = TRUE
                 /\ pc' = "body"
                 /\ UNCHANGED exc
            ELSE UNCHANGED <<telegram, begin_found, pc, exc>>
  /\ UNCHANGED <<config, handles, status, checksum_found, good_checksum,
                 given_checksum, calculated_checksum, result, constructed, lines>>

\* ReadChecksum with a further '/' line starting the text afresh.
ReadChecksumRestarting ==
  /\ pc = "body"
  /\ LET telegram_line == ReadLine(source)
     IN  /\ Consume(telegram_line)
         /\ IF ~IsAscii(telegram_line)
            THEN /\ Raise("UnicodeDecodeError")
                 /\ UNCHANGED <<telegram, checksum_found>>
            ELSE /\ telegram' = IF StartsWith(telegram_line, Slash)
                                THEN telegram_line
                                ELSE telegram \o telegram_line
                 /\ UNCHANGED exc
                 /\ IF StartsWith(telegram_line, Bang)
                    THEN checksum_found' = TRUE /\ pc' = "checksum"
                    ELSE UNCHANGED <<checksum_found, pc>>
  /\ UNCHANGED <<config, handles, status, begin_found, good_checksum,
                 given_checksum, calculated_checksum, result, constructed, lines>>

\* ReadChecksum with the loop also ended by an empty read, the end of the
\* input.
ReadChecksumToEnd ==
  /\ pc = "body"
  /\ LET telegram_line == ReadLine(source)
     IN  /\ Consume(telegram_line)
         /\ IF ~IsAscii(telegram_line)
            THEN /\ Raise("UnicodeDecodeError")
                 /\ UNCHANGED <<telegram, checksum_found>>
            ELSE /\ telegram' = telegram \o telegram_line
                 /\ UNCHANGED exc
                 /\ IF StartsWith(telegram_line, Bang) \/ telegram_line = <<>>
                    THEN checksum_found' = TRUE /\ pc' = "checksum"
                    ELSE UNCHANGED <<checksum_found, pc>>
  /\ UNCHANGED <<config, handles, status, begin_found, good_checksum,
                 given_checksum, calculated_checksum, result, constructed, lines>>

\* One turn of the loop of lines 154-162.
ReadChecksum ==
  /\ pc = "body"
  /\ LET telegram_line == ReadLine(source)
     IN  /\ Consume(telegram_line)
         /\ IF ~IsAscii(telegram_line)
            THEN /\ Raise("UnicodeDecodeError")
                 /\ UNCHANGED <<telegram, checksum_found>>
            ELSE /\ telegram' = telegram \o telegram_line
                 /\ UNCHANGED exc
                 /\ IF StartsWith(telegram_line, Bang)
                    THEN checksum_found' = TRUE /\ pc' = "checksum"
                    ELSE UNCHANGED <<checksum_found, pc>>
  /\ UNCHANGED <<config, handles, status, begin_found, good_checksum,
                 given_checksum, calculated_checksum, result, constructed, lines>>

\* The serial port fails under a read.
ReadFails ==
  /\ pc \in {"begin", "body"}
  /\ ~SIMULATION
  /\ Raise("SerialException")
  /\ UNCHANGED <<config, handles, status, source, reads, locals>>

\* Checksum without the test of the version at line 165.
ChecksumInEveryVersion(text, version, given, calculated, good) ==
  LET matches == CHECKSUM_PATTERN(text)
      bad     == {e \in matches : ~GivenChecksum(text, e).ok}
      done    == IF bad = {} THEN matches ELSE {e \in matches : e < Min(bad)}
      g       == GivenChecksum(text, Max(done)).val
      c       == CalculatedChecksum(text, Max(done))
  IN  [exc |-> IF bad = {} THEN "none" ELSE "ValueError",
       given_checksum |-> IF done = {} THEN given ELSE g,
       calculated_checksum |-> IF done = {} THEN calculated ELSE c,
       good_checksum |-> IF done = {} THEN good ELSE g = c]

\* Lines 165-170: in version 4 every match of CHECKSUM_PATTERN sets the
\* given and the calculated checksum and compares them, the last one
\* deciding; int() raises ValueError on what is no hexadecimal number. With
\* no match, and in version 2, the three variables stay as they were.
Checksum(text, version, given, calculated, good) ==
  LET matches == IF version = 4 THEN CHECKSUM_PATTERN(text) ELSE {}
      bad     == {e \in matches : ~GivenChecksum(text, e).ok}
      done    == IF bad = {} THEN matches ELSE {e \in matches : e < Min(bad)}
      g       == GivenChecksum(text, Max(done)).val
      c       == CalculatedChecksum(text, Max(done))
  IN  [exc |-> IF bad = {} THEN "none" ELSE "ValueError",
       given_checksum |-> IF done = {} THEN given ELSE g,
       calculated_checksum |-> IF done = {} THEN calculated ELSE c,
       good_checksum |-> IF done = {} THEN good ELSE g = c]

\* VerifyChecksum without the test of line 172: the text is split and its
\* fields are extracted whatever the comparison gave.
VerifyChecksumUnheeded ==
  /\ pc = "checksum"
  /\ LET after == Checksum(telegram, DSRM_VERSION, given_checksum,
                           calculated_checksum, good_checksum)
     IN  /\ given_checksum' = after.given_checksum
         /\ calculated_checksum' = after.calculated_checksum
         /\ good_checksum' = after.good_checksum
         /\ IF after.exc # "none"
            THEN Raise(after.exc) /\ UNCHANGED lines
            ELSE /\ UNCHANGED exc
                 /\ pc' = "extract"
                 /\ lines' = Split(telegram, CRLF)
  /\ UNCHANGED <<config, handles, status, source, reads, telegram, begin_found,
                 checksum_found, result, constructed>>

\* Lines 165-173: the checksum, and the split of the text when it is good.
VerifyChecksum ==
  /\ pc = "checksum"
  /\ LET after == Checksum(telegram, DSRM_VERSION, given_checksum,
                           calculated_checksum, good_checksum)
     IN  /\ given_checksum' = after.given_checksum
         /\ calculated_checksum' = after.calculated_checksum
         /\ good_checksum' = after.good_checksum
         /\ IF after.exc # "none"
            THEN Raise(after.exc) /\ UNCHANGED lines
            ELSE /\ UNCHANGED exc
                 /\ IF after.good_checksum
                    THEN pc' = "extract" /\ lines' = Split(telegram, CRLF)
                    ELSE pc' = "return" /\ UNCHANGED lines
  /\ UNCHANGED <<config, handles, status, source, reads, telegram, begin_found,
                 checksum_found, result, constructed>>

\* One turn of the loop of lines 173-192.
Extract ==
  /\ pc = "extract"
  /\ lines # <<>>
  /\ LET after == ExtractLine(result, Head(lines), DSRM_VERSION)
     IN  /\ result' = after.result
         /\ lines' = Tail(lines)
         /\ IF after.exc # "none" THEN Raise(after.exc)
            ELSE /\ UNCHANGED exc
                 /\ pc' = IF Tail(lines) # <<>> THEN "extract"
                          ELSE IF DSRM_VERSION = 2 THEN "gas" ELSE "return"
  /\ UNCHANGED <<config, handles, status, source, reads, telegram, begin_found,
                 checksum_found, good_checksum, given_checksum,
                 calculated_checksum, constructed>>

\* Lines 193-196.
ExtractGas2 ==
  /\ pc = "gas"
  /\ LET after == SearchGas2(result, telegram)
     IN  /\ result' = after.result
         /\ IF after.exc # "none" THEN Raise(after.exc)
            ELSE UNCHANGED exc /\ pc' = "return"
  /\ UNCHANGED <<config, handles, status, source, reads, telegram, begin_found,
                 checksum_found, good_checksum, given_checksum,
                 calculated_checksum, constructed, lines>>

\* Line 198, back in main at line 224.
Return ==
  /\ pc = "return"
  /\ pc' = "print"
  /\ UNCHANGED <<config, handles, exc, status, source, reads, locals>>

\* Lines 225-228.
PrintTelegram ==
  /\ pc = "print"
  /\ pc' = "finally"
  /\ UNCHANGED <<config, handles, exc, status, source, reads, locals>>

\* Lines 231-235: sys.exit with a message raises SystemExit, status 1.
ExceptDbError ==
  /\ pc = "except"
  /\ exc = "db.Error"
  /\ exc' = "SystemExit"
  /\ pc' = "finally"
  /\ UNCHANGED <<config, handles, status, source, reads, locals>>

\* Lines 236-240: the message reads ser.name, which None does not have.
ExceptSerialException ==
  /\ pc = "except"
  /\ exc = "SerialException"
  /\ exc' = IF ser = "None" THEN "AttributeError" ELSE "SystemExit"
  /\ pc' = "finally"
  /\ UNCHANGED <<config, handles, status, source, reads, locals>>

\* Lines 241-245: sys.exit raises before the % of line 245 is applied.
ExceptException ==
  /\ pc = "except"
  /\ exc \notin {"db.Error", "SerialException"}
  /\ exc' = "SystemExit"
  /\ pc' = "finally"
  /\ UNCHANGED <<config, handles, status, source, reads, locals>>

\* Lines 246-250, and the end of the process: status 0 when nothing is
\* raised, 1 for SystemExit with a message and for an uncaught exception.
Finally ==
  /\ pc = "finally"
  /\ ser' = IF ser # "None" THEN "closed" ELSE ser
  /\ con' = IF writer THEN "closed" ELSE con
  /\ status' = IF exc = "none" THEN 0 ELSE 1
  /\ pc' = "exit"
  /\ UNCHANGED <<config, writer, exc, source, reads, locals>>

Next ==
  \/ NewDbWriter
  \/ OpenStream
  \/ EnterGetTelegram
  \/ ReadBegin
  \/ ReadChecksum
  \/ ReadFails
  \/ VerifyChecksum
  \/ Extract
  \/ ExtractGas2
  \/ Return
  \/ PrintTelegram
  \/ ExceptDbError
  \/ ExceptSerialException
  \/ ExceptException
  \/ Finally

Spec == Init /\ [][Next]_vars

(***************************************************************************)
(* get_telegram as a function of the input, for statements that compare    *)
(* the telegrams of two inputs: the same steps as the actions above, run   *)
(* to the end. The outcome is "returned", "raised" (with exc) or "blocked" *)
(* (the input ended before the telegram did, and the loop reads on).       *)
(***************************************************************************)
\* The loops of lines 149-162 on the bytes left, the text so far and
\* begin_found.
RECURSIVE Frame(_, _, _)
Frame(bytes, text, begun) ==
  LET telegram_line == ReadLine(bytes)
      rest == SubSeq(bytes, Len(telegram_line) + 1, Len(bytes))
  IN  IF bytes = <<>> THEN [outcome |-> "blocked", text |-> text]
      ELSE IF ~IsAscii(telegram_line)
      THEN [outcome |-> "raised", text |-> text]
      ELSE IF ~begun
      THEN (IF StartsWith(telegram_line, Slash)
            THEN Frame(rest, telegram_line, TRUE)
            ELSE Frame(rest, text, FALSE))
      ELSE IF StartsWith(telegram_line, Bang)
      THEN [outcome |-> "framed", text |-> text \o telegram_line]
      ELSE Frame(rest, text \o telegram_line, TRUE)

\* The loop of lines 173-192 over the lines left, until one raises.
RECURSIVE ExtractAll(_, _, _)
ExtractAll(record, todo, version) ==
  IF todo = <<>> THEN [exc |-> "none", result |-> record]
  ELSE LET after == ExtractLine(record, Head(todo), version)
       IN  IF after.exc # "none" THEN after
           ELSE ExtractAll(after.result, Tail(todo), version)

GetTelegram(bytes, version, now) ==
  LET framed == Frame(bytes, <<>>, FALSE)
      text   == framed.text
      check  == Checksum(text, version, -1, -1, TRUE)
      fields == ExtractAll(Telegram(now), Split(text, CRLF), version)
      gas    == SearchGas2(fields.result, text)
  IN  IF framed.outcome = "blocked" THEN [outcome |-> "blocked"]
      ELSE IF framed.outcome = "raised"
      THEN [outcome |-> "raised", exc |-> "UnicodeDecodeError"]
      ELSE IF check.exc # "none" THEN [outcome |-> "raised", exc |-> check.exc]
      ELSE IF ~check.good_checksum
      THEN [outcome |-> "returned", good_checksum |-> FALSE, result |-> Telegram(now)]
      ELSE IF fields.exc # "none" THEN [outcome |-> "raised", exc |-> fields.exc]
      ELSE IF version # 2
      THEN [outcome |-> "returned", good_checksum |-> TRUE, result |-> fields.result]
      ELSE IF gas.exc # "none" THEN [outcome |-> "raised", exc |-> gas.exc]
      ELSE [outcome |-> "returned", good_checksum |-> TRUE, result |-> gas.result]

(***************************************************************************)
(* What the statements below speak of                                      *)
(***************************************************************************)
\* get_telegram has returned its Telegram to main.
GetTelegramReturned == pc \in {"print", "finally", "exit"} /\ exc = "none"

\* main is inside get_telegram, or back from it, and nothing was raised.
InGetTelegram ==
  pc \in {"begin", "body", "checksum", "extract", "gas", "return"}

\* The frame reader is through: both loops have ended.
FrameRead == pc \in {"checksum", "extract", "gas", "return"} \/ GetTelegramReturned

\* Everything the source was opened with: what was read and what is left.
Wire == Concat(reads) \o source

\* The index in rs of the first line that starts with '/', 0 when none does.
BeginIndex(rs) ==
  LET starts == {i \in 1..Len(rs) : StartsWith(rs[i], Slash)}
  IN  IF starts = {} THEN 0 ELSE Min(starts)

\* The index in rs of the first line after the begin that starts with '!'.
EndIndex(rs) ==
  LET ends == {j \in BeginIndex(rs) + 1..Len(rs) :
                 BeginIndex(rs) > 0 /\ StartsWith(rs[j], Bang)}
  IN  IF ends = {} THEN 0 ELSE Min(ends)

\* The lines between the line that starts the telegram and the one that
\* ends it.
BodyLines(rs) ==
  IF EndIndex(rs) = 0 THEN <<>> ELSE SubSeq(rs, BeginIndex(rs) + 1, EndIndex(rs) - 1)

(***************************************************************************)
(* The frame reader                                                        *)
(***************************************************************************)
\* C2: the accumulated text is exactly the first line that starts with '/'
\* followed by every later line, in read order, up to and including the
\* first later line that starts with '!'. Lines read before the '/' line are
\* no part of it, a further '/' line is appended like any other, and once
\* the '!' line is read no further line is read: it is the last line read.
C2_AccumulatedText ==
  (InGetTelegram \/ GetTelegramReturned) =>
    LET b == BeginIndex(reads)
        e == EndIndex(reads)
    IN  /\ begin_found = (b > 0)
        /\ checksum_found = (e > 0)
        /\ telegram = IF b = 0 THEN <<>>
                      ELSE Concat(SubSeq(reads, b, IF e = 0 THEN Len(reads) ELSE e))
        /\ e > 0 => e = Len(reads)

\* A telegram was framed that had a line before its '/' line, a further '/'
\* line inside, and a line after its '!' line, which is still unread.
C2_Witness ==
  /\ GetTelegramReturned
  /\ BeginIndex(reads) > 1
  /\ \E i \in BeginIndex(reads) + 1..EndIndex(reads) - 1 : StartsWith(reads[i], Slash)
  /\ source # <<>>

\* C3: get_telegram never returns a Telegram unless a line starting with '/'
\* and, after it, a line starting with '!' were both read. A source that ends
\* (and then yields empty reads for ever) before that keeps the reader in
\* its loops.
C3_NoPartialResult ==
  /\ FrameRead => BeginIndex(reads) > 0 /\ EndIndex(reads) > BeginIndex(reads)
  /\ (InGetTelegram /\ source = <<>> /\ EndIndex(reads) = 0) => pc \in {"begin", "body"}

\* The input has ended after the start of a telegram and before its end:
\* the reader is in its second loop, where every further read is empty.
C3_Witness ==
  /\ pc = "body"
  /\ source = <<>>
  /\ BeginIndex(reads) > 0
  /\ EndIndex(reads) = 0
  /\ Len(reads) > 1

(***************************************************************************)
(* The decoder                                                             *)
(***************************************************************************)
\* The step of the extraction loop that meets a timestamp line whose twelve
\* digits are a date and time.
TimestampStep ==
  /\ pc = "extract"
  /\ TIMESTAMP_PATTERN(Head(lines)).ok
  /\ exc' = "none"
  /\ result' # result \/ lines' # lines

\* The naive parse of the twelve digits of the timestamp line at hand, as
\* time since 1970-01-01T00:00:00.
NaiveParse == SinceEpoch(Strptime(TIMESTAMP_PATTERN(Head(lines)).Value))

\* C4 as claimed: the stored timestamp is the naive parse minus 3600 seconds
\* for the flag 'S' and minus 7200 seconds for the flag 'W', and the twelve
\* digits are stored unchanged as localtime.
C4_SummerOneHour ==
  [][TimestampStep =>
       /\ result'.localtime = TIMESTAMP_PATTERN(Head(lines)).Value
       /\ result'.timestamp =
            MinusSeconds(NaiveParse,
                         IF TIMESTAMP_PATTERN(Head(lines)).Timezone = CharS
                         THEN 3600 ELSE 7200)]_vars

\* C4 as the code has it: minus 7200 seconds for the flag 'S' and minus 3600
\* seconds for the flag 'W'; the twelve digits are stored unchanged as
\* localtime. 240615120000 is 19889 days and 43200 seconds after the epoch.
C4_SummerTwoHours ==
  [][TimestampStep =>
       /\ result'.localtime = TIMESTAMP_PATTERN(Head(lines)).Value
       /\ result'.timestamp =
            MinusSeconds(NaiveParse,
                         IF TIMESTAMP_PATTERN(Head(lines)).Timezone = CharS
                         THEN 7200 ELSE 3600)
       /\ result'.localtime = B("240615120000") =>
            NaiveParse = [days |-> 19889, seconds |-> 43200]]_vars

\* The line 0-0:1.0.0(240615120000S) was extracted: the timestamp is 10:00:00
\* of that day.
C4_Witness ==
  /\ pc \in {"extract", "return"}
  /\ result.localtime = B("240615120000")
  /\ result.timestamp = [days |-> 19889, seconds |-> 36000]

TextLines == Split(telegram, CRLF)

\* The codes of the electricity readings among these lines.
Readings(ls) ==
  LET el == [i \in 1..Len(ls) |-> ELECTRICITY_PATTERN(ls[i])]
  IN  {el[i].Code : i \in {j \in 1..Len(ls) : el[j].ok}}

\* The gas pattern of the version in use matches in the text.
HasGas(ls) ==
  IF DSRM_VERSION = 4
  THEN \E i \in 1..Len(ls) : GAS_PATTERN4(ls[i]).ok
  ELSE DSRM_VERSION = 2 /\ GAS_PATTERN2(telegram).ok

\* The line at hand in the extraction loop matches none of the patterns
\* tried on it.
UnmatchedLine ==
  /\ ~TIMESTAMP_PATTERN(Head(lines)).ok
  /\ ~ELECTRICITY_PATTERN(Head(lines)).ok
  /\ ~(DSRM_VERSION = 4 /\ GAS_PATTERN4(Head(lines)).ok)

\* Every field whose pattern matches no line of the text holds its
\* construction default.
KeepsDefaults ==
  pc \in {"extract", "gas", "return", "print"} =>
    LET ls == TextLines
        codes == Readings(ls)
        gas421 == SubSeq(Gas4Head, 1, 10)
    IN  /\ (\A i \in 1..Len(ls) : ~TIMESTAMP_PATTERN(ls[i]).ok) =>
             /\ result.localtime = constructed.localtime
             /\ result.timestamp = constructed.timestamp
        /\ ACTUAL \notin codes => result.actual = Zero
        /\ TARIFF1 \notin codes => result.tariff1 = Zero
        /\ TARIFF2 \notin codes => result.tariff2 = Zero
        /\ ~HasGas(ls) => result.gas = Zero
        /\ (DSRM_VERSION = 4 /\ \A i \in 1..Len(ls) : ~StartsWith(ls[i], gas421)) =>
             result.gas = Zero

\* C7: a field whose pattern matches no line of the telegram keeps its
\* construction default (0.0 for actual, tariff1, tariff2 and gas) all
\* through get_telegram; a line that matches none of the patterns
\* changes no field and raises nothing; a version 4 telegram with no
\* 0-1:24.2.1 line has gas 0.0.
C7_UnmatchedKeepsDefaults ==
  /\ []KeepsDefaults
  /\ [][(pc = "extract" /\ UnmatchedLine) => (result' = result /\ exc' = "none")]_vars

\* A version 4 telegram with lines that match no pattern, with a timestamp
\* line, and with no gas line and no electricity line was decoded.
C7_Witness ==
  /\ GetTelegramReturned
  /\ DSRM_VERSION = 4
  /\ good_checksum
  /\ given_checksum = calculated_checksum /\ given_checksum # -1
  /\ \E i \in 1..Len(reads) : reads[i] = Other
  /\ result.localtime # constructed.localtime
  /\ result.gas = Zero /\ result.actual = Zero
  /\ result.tariff1 = Zero /\ result.tariff2 = Zero

\* C10: in version 2 no checksum is compared: good_checksum keeps the value
\* True of line 144 whatever follows '!', the fields are always extracted
\* from the text, gas is what the two-line 0-1:24.3.0 pattern finds in the
\* whole text and nothing else, and a 0-1:24.2.1 line never changes it.
C10_Version2NoChecksum ==
  DSRM_VERSION = 2 =>
    /\ good_checksum
    /\ given_checksum = -1 /\ calculated_checksum = -1
    /\ pc \in {"extract", "gas"} => result.gas = Zero
    /\ (pc = "return" \/ GetTelegramReturned) =>
         /\ lines = <<>>
         /\ result.gas = IF GAS_PATTERN2(telegram).ok
                         THEN Float(GAS_PATTERN2(telegram).Value).val
                         ELSE Zero
         /\ LET fields == ExtractAll(constructed, TextLines, 2).result
            IN  /\ result.localtime = fields.localtime
                /\ result.timestamp = fields.timestamp
                /\ result.actual = fields.actual
                /\ result.tariff1 = fields.tariff1
                /\ result.tariff2 = fields.tariff2

\* A version 2 telegram whose last line is no hexadecimal number was
\* decoded: it holds a 0-1:24.2.1 line and the two 0-1:24.3.0 lines, and gas
\* is the 4.75 of the latter.
C10_Witness ==
  /\ GetTelegramReturned
  /\ DSRM_VERSION = 2
  /\ ~IntHex(Tail(reads[Len(reads)])).ok
  /\ \E i \in 1..Len(reads) : reads[i] = Gas4
  /\ result.gas = <<475, 2>>
  /\ result.localtime = B("691231235959")

(***************************************************************************)
(* The order of the lines                                                  *)
(***************************************************************************)
\* The order of two lines as texts: by the first byte that differs, a
\* prefix before what it is a prefix of.
LexLess(a, b) ==
  \/ \E k \in 1..Len(a) :
       /\ k <= Len(b)
       /\ a[k] < b[k]
       /\ \A j \in 1..k - 1 : a[j] = b[j]
  \/ /\ Len(a) < Len(b)
     /\ \A j \in 1..Len(a) : a[j] = b[j]

\* The telegram just read with its body lines in one fixed order, the same
\* for every ordering of them, and the checksum that goes with it.
Reordered ==
  LET payload == reads[BeginIndex(reads)]
                   \o Concat(SortSeq(BodyLines(reads), LexLess)) \o Bang
  IN  payload \o Hex4(CRC16(payload)) \o CRLF

\* What get_telegram makes of the reordered telegram at the same time.
OfReordered ==
  GetTelegram(Reordered, DSRM_VERSION,
              CHOOSE now \in Clock : Telegram(now) = constructed)

\* get_telegram has returned the fields of a telegram whose checksum, where
\* there is one to compare, was found equal.
Accepted ==
  /\ pc = "print"
  /\ good_checksum
  /\ DSRM_VERSION = 4 => given_checksum = calculated_checksum /\ given_checksum # -1

\* How many of the lines the test picks.
Count(ls, Test(_)) == Cardinality({i \in 1..Len(ls) : Test(ls[i])})

IsTimestampLine(line) == TIMESTAMP_PATTERN(line).ok
IsActualLine(line) == ELECTRICITY_PATTERN(line).ok /\ ELECTRICITY_PATTERN(line).Code = ACTUAL
IsTariff1Line(line) == ELECTRICITY_PATTERN(line).ok /\ ELECTRICITY_PATTERN(line).Code = TARIFF1
IsTariff2Line(line) == ELECTRICITY_PATTERN(line).ok /\ ELECTRICITY_PATTERN(line).Code = TARIFF2
IsGas4Line(line) == GAS_PATTERN4(line).ok
EndsLine(line) == Len(line) >= 2 /\ SubSeq(line, Len(line) - 1, Len(line)) = CRLF

\* The body lines hold the timestamp code and the three electricity codes.
HoldsTheCodes(body) ==
  /\ Count(body, IsTimestampLine) >= 1
  /\ Count(body, IsActualLine) >= 1
  /\ Count(body, IsTariff1Line) >= 1
  /\ Count(body, IsTariff2Line) >= 1

\* The body lines hold each of the four codes once and at most one gas
\* reading, and each ends with CR LF.
HoldsTheCodesOnce(body) ==
  /\ Count(body, IsTimestampLine) = 1
  /\ Count(body, IsActualLine) = 1
  /\ Count(body, IsTariff1Line) = 1
  /\ Count(body, IsTariff2Line) = 1
  /\ Count(body, IsGas4Line) <= 1
  /\ \A i \in 1..Len(body) : EndsLine(body[i])

DeclaresItsChecksum ==
  LET last == reads[EndIndex(reads)]
      payload == SubSeq(telegram, 1, Len(telegram) - Len(last) + 1)
  IN  /\ EndIndex(reads) > 0
      /\ IntHex(Tail(last)).ok
      /\ IntHex(Tail(last)).val = CRC16(payload)

\* C1: in version 4 a telegram whose declared checksum is the CRC16 of its
\* payload passes the check and has its fields extracted, and a telegram
\* that differs from such a one in a single bit of a payload byte, the CR
\* and the LF before '!' included, fails it: none of its fields is
\* extracted.
C1_ChecksumGuards ==
  DSRM_VERSION = 4 =>
    /\ (pc \in {"return", "print"} /\ DeclaresItsChecksum) =>
         /\ good_checksum
         /\ result = ExtractAll(constructed, TextLines, 4).result
    /\ (Wire \in CorruptWires /\ FrameRead) =>
         /\ pc # "extract"
         /\ pc \in {"return", "print"} => ~good_checksum /\ result = constructed

\* C6: once the frame reader is through, get_telegram returns its Telegram
\* or reports the checksum mismatch; nothing else happens, whatever follows
\* '!' on the last line. The code has no report of a mismatch, so what is
\* left is the return: no exception is raised.
C6_OnlyTwoOutcomes == checksum_found => exc = "none"

(***************************************************************************)
(* main                                                                    *)
(***************************************************************************)
\* C9: when the process ends, the stream and the database connection are
\* closed if they were opened, and the exit status is 0 when nothing was
\* raised and not 0 otherwise.
C9_HandlesClosedAtExit ==
  pc = "exit" =>
    /\ ser \in {"None", "closed"}
    /\ con \in {"none", "closed"}
    /\ exc = "none" => status = 0
    /\ exc # "none" => status > 0

====
